---- MODULE Spec2Model ----
(***************************************************************************)
(* Model of app.py, the Enterprise Content Analyzer.  The whole script is  *)
(* re-executed top to bottom on every user interaction (a render pass).    *)
(* The state is the value every widget returned in the last pass, the      *)
(* script variables at the end of that pass, and what the pass displayed.  *)
(***************************************************************************)
EXTENDS Integers, Sequences, FiniteSets, TLC

VARIABLES
    input_type,       \* value of the radio (line 156)
    url,              \* value of the URL text input (line 167), "" when not rendered
    uploaded_file,    \* value of the file uploader (line 174), None when not rendered
    user_query,       \* value of the query text area (line 200), "" when not rendered
    data_content,     \* script variable at the end of the pass
    error_message,    \* script variable at the end of the pass
    analysis_prompt,  \* the prompt composed in the pass, None when none was composed
    rendered,         \* the elements the pass displayed
    agent_runs,       \* calls of multimodal_Agent.run made in the pass
    status,           \* "done", or "aborted" when an exception ended the pass
    clicked,          \* st.button returned True in the pass
    extractor_calls,  \* the extractor functions the pass called, in order
    returned,         \* the pair the extractor call of the pass returned, None if none
    failed_step,      \* the step that failed inside the extractor call, "none" if none
    event,            \* the interaction that started the pass
    prev_loaded       \* the pass before this one displayed the content as loaded

vars == <<input_type, url, uploaded_file, user_query, data_content, error_message,
          analysis_prompt, rendered, agent_runs, status, clicked, extractor_calls,
          returned, failed_step, event, prev_loaded>>

----------------------------------------------------------------------------
(* Python values.  An optional value is None or Some(v); None is Python's  *)
(* None.  A text is a sequence of character codes.                         *)

None == <<>>
Some(v) == <<v>>

\* Python truthiness of an optional text or message: None and "" are falsy.
Truthy(v) == v # None /\ Len(v[1]) > 0

Min(a, b) == IF a < b THEN a ELSE b

\* The character budget of the prompt: data_content[:8000].
Budget == 8000

\* Texts are up to MaxOver characters longer than the budget.
MaxOver == 1

\* A text of n characters whose characters depend on their position.
Text(n) == [i \in 1..n |-> 97 + (i % 7)]

Newline == <<10>>

WEBSITE == "Website URL"
UPLOAD == "Upload File"
InputTypes == {WEBSITE, UPLOAD}

\* The URLs the user may type.
Urls == {"https://a.example", "https://b.example"}

\* The queries the user may type.
Queries == {"what", "why"}

PDF_TYPE == "application/pdf"
TXT_TYPE == "text/plain"
CSV_TYPE == "text/csv"
XLS_TYPE == "application/vnd.ms-excel"
XLSX_TYPE == "application/vnd.openxmlformats-officedocument.spreadsheetml.sheet"
OCTET_TYPE == "application/octet-stream"

\* The extensions the file uploader accepts (line 176).
Extensions == {"pdf", "txt", "csv", "xlsx"}

\* The media types a browser may declare; no branch of the dispatch matches
\* OCTET_TYPE.
MediaTypes == {PDF_TYPE, TXT_TYPE, CSV_TYPE, XLS_TYPE, XLSX_TYPE, OCTET_TYPE}

\* Uploaded files: an accepted extension with the media type the browser declares.
Files == [ext : Extensions, type : MediaTypes]

----------------------------------------------------------------------------
(* What the libraries can do in one call of an extractor: fail at a step,  *)
(* or deliver a text.                                                      *)

TextLens == {0, 1, Budget} \cup {Budget + k : k \in 1..MaxOver}
Texts == {Text(n) : n \in TextLens}
NonEmptyTexts == {t \in Texts : Len(t) > 0}

WebOutcomes ==
    {[fail |-> s, text |-> Text(0)] : s \in {"get", "raise_for_status", "BeautifulSoup"}}
        \cup {[fail |-> "none", text |-> t] : t \in Texts}

\* A PDF is a sequence of pages; extract_text gives the text of a page.
PdfOutcomes ==
    {[fail |-> s, pages |-> <<>>] : s \in {"PdfReader", "extract_text"}}
        \cup {[fail |-> "none", pages |-> p] :
                p \in {<<>>, <<Text(0)>>, <<Text(1), Text(2)>>, <<Text(Budget)>>}}

TxtOutcomes ==
    {[fail |-> s, text |-> Text(0)] : s \in {"read", "decode"}}
        \cup {[fail |-> "none", text |-> t] : t \in Texts}

\* DataFrame.to_string never gives the empty string.
CsvOutcomes ==
    {[fail |-> s, text |-> Text(0)] : s \in {"read_csv", "to_string"}}
        \cup {[fail |-> "none", text |-> t] : t \in NonEmptyTexts}

ExcelOutcomes ==
    {[fail |-> s, text |-> Text(0)] : s \in {"read_excel", "to_string"}}
        \cup {[fail |-> "none", text |-> t] : t \in NonEmptyTexts}

\* multimodal_Agent.run returns a response or raises.
AgentOutcomes == {"ok", "raise"}

\* Only a pass started by a click can reach the call of run.
AgentCalls(click) == IF click THEN AgentOutcomes ELSE {"ok"}

----------------------------------------------------------------------------
(* The extractors.  Each gives what the call does: it returns the pair     *)
(* (text, error), or raises.                                               *)

Return(text, err) == [raised |-> FALSE, value |-> <<text, err>>]
Raise == [raised |-> TRUE, value |-> <<None, None>>]

fetch_webpage_content_both(o) ==
    IF o.fail # "none"
    THEN Return(Some(Text(1)), Some(<<"Error fetching content: ", o.fail>>))
    ELSE Return(Some(o.text), None)

fetch_webpage_content(o) ==
    IF o.fail # "none"
    THEN Return(None, Some(<<"Error fetching content: ", o.fail>>))
    ELSE Return(Some(o.text), None)

RECURSIVE PdfText(_)
PdfText(pages) ==
    IF pages = <<>> THEN <<>>
    ELSE Head(pages) \o Newline \o PdfText(Tail(pages))

extract_text_from_pdf_narrow(o) ==
    IF o.fail = "PdfReader"
    THEN Return(None, Some(<<"Error processing PDF: ", o.fail>>))
    ELSE IF o.fail # "none" THEN Raise
    ELSE Return(Some(PdfText(o.pages)), None)

extract_text_from_pdf(o) ==
    IF o.fail # "none"
    THEN Return(None, Some(<<"Error processing PDF: ", o.fail>>))
    ELSE Return(Some(PdfText(o.pages)), None)

extract_text_from_txt(o) ==
    IF o.fail # "none"
    THEN Return(None, Some(<<"Error processing text file: ", o.fail>>))
    ELSE Return(Some(o.text), None)

extract_text_from_csv_both(o) ==
    IF o.fail # "none"
    THEN Return(Some(Text(1)), Some(<<"Error processing CSV file: ", o.fail>>))
    ELSE Return(Some(o.text), None)

extract_text_from_csv(o) ==
    IF o.fail # "none"
    THEN Return(None, Some(<<"Error processing CSV file: ", o.fail>>))
    ELSE Return(Some(o.text), None)

extract_text_from_excel(o) ==
    IF o.fail # "none"
    THEN Return(None, Some(<<"Error processing Excel file: ", o.fail>>))
    ELSE Return(Some(o.text), None)

----------------------------------------------------------------------------
(* The dispatch of lines 162-190: the set of things the extraction part of *)
(* a pass can do for the widget values of the pass.                        *)

ResetResult_keep == <<data_content, error_message>>

\* data_content = None; error_message = None
ResetResult == <<None, None>>

\* No branch of the dispatch called an extractor: the pair stays as reset.
NoCall == [calls |-> <<>>, fail |-> "none", raised |-> FALSE, value |-> ResetResult]

\* data_content, error_message = fn(...): the call of extractor fn, whose
\* libraries did o, gave r.
Called(fn, o, r) ==
    [calls |-> <<fn>>, fail |-> o.fail, raised |-> r.raised, value |-> r.value]

UrlBranch(u) ==
    IF u # ""
    THEN {Called("fetch_webpage_content", o, fetch_webpage_content(o)) : o \in WebOutcomes}
    ELSE {NoCall}

FileBranch(f) ==
    IF f = None THEN {NoCall}
    ELSE LET type == f[1].type IN
         IF type = PDF_TYPE
         THEN {Called("extract_text_from_pdf", o, extract_text_from_pdf(o)) : o \in PdfOutcomes}
         ELSE IF type = TXT_TYPE
         THEN {Called("extract_text_from_txt", o, extract_text_from_txt(o)) : o \in TxtOutcomes}
         ELSE IF type = CSV_TYPE
         THEN {Called("extract_text_from_csv", o, extract_text_from_csv(o)) : o \in CsvOutcomes}
         ELSE IF type \in {XLS_TYPE, XLSX_TYPE}
         THEN {Called("extract_text_from_excel", o, extract_text_from_excel(o)) :
                  o \in ExcelOutcomes}
         ELSE {NoCall}

Dispatch_cached(it, u, f) ==
    IF data_content # None
    THEN {[calls |-> <<>>, fail |-> "none", raised |-> FALSE,
           value |-> <<data_content, error_message>>]}
    ELSE IF it = WEBSITE THEN UrlBranch(u) ELSE FileBranch(f)

Dispatch(it, u, f) == IF it = WEBSITE THEN UrlBranch(u) ELSE FileBranch(f)

----------------------------------------------------------------------------
(* The display part of the script, lines 192-225.                          *)

\* if error_message: the error box
ShowError(em) == IF Truthy(em) THEN {"error"} ELSE {}

Slice_plus(s, n) == SubSeq(s, 1, Min(Len(s), n + 1))

\* s[:n]
Slice(s, n) == SubSeq(s, 1, Min(Len(s), n))

\* The f-string of lines 211-220: literal parts around the two holes.
PromptTemplate(q, content) ==
    <<"Analyze the following content and answer the user's question: User Query: ",
      q, " Content: ", Slice(content, Budget),
      " Provide a structured and detailed response.">>

RunAgent_retry(prompt, a) ==
    IF a = "ok"
    THEN [runs |-> 1, status |-> "done", shown |-> {"results_heading", "response"}]
    ELSE [runs |-> 2, status |-> "done", shown |-> {"results_heading", "response"}]

\* response = multimodal_Agent.run(analysis_prompt), then the result is displayed.
\* An exception of run is not caught: it ends the pass.
RunAgent(prompt, a) ==
    IF a = "ok"
    THEN [runs |-> 1, status |-> "done", shown |-> {"results_heading", "response"}]
    ELSE [runs |-> 1, status |-> "aborted", shown |-> {}]

OnAnalyze_unchecked(q, content, a) ==
    LET p == PromptTemplate(q, content)
        r == RunAgent(p, a)
    IN  [prompt |-> Some(p), runs |-> r.runs, status |-> r.status, shown |-> r.shown]

\* The body of "if st.button(...)", lines 207-225.
OnAnalyze(q, content, a) ==
    IF q = ""
    THEN [prompt |-> None, runs |-> 0, status |-> "done", shown |-> {"warning"}]
    ELSE LET p == PromptTemplate(q, content)
             r == RunAgent(p, a)
         IN  [prompt |-> Some(p), runs |-> r.runs, status |-> r.status, shown |-> r.shown]

Nothing == [prompt |-> None, runs |-> 0, status |-> "done", shown |-> {}]

\* "if data_content:", lines 197-225.  The button returns True only in the
\* pass its click started, and only if the pass reaches it.
QuerySection(dc, q, click, a) ==
    IF Truthy(dc)
    THEN LET b == IF click THEN OnAnalyze(q, dc[1], a) ELSE Nothing
         IN  [prompt |-> b.prompt, runs |-> b.runs, status |-> b.status,
              shown |-> {"success", "query_input", "button"} \cup b.shown,
              user_query |-> q, clicked |-> click]
    ELSE [prompt |-> None, runs |-> 0, status |-> "done", shown |-> {},
          user_query |-> "", clicked |-> FALSE]

SourceWidget(it) == IF it = WEBSITE THEN "url_input" ELSE "file_uploader"

----------------------------------------------------------------------------
(* One render pass: the script run with the widget values it, u, f, q and  *)
(* click, started by the interaction ev.                                   *)

Render(ev, it, u, f, q, click) ==
    \E x \in Dispatch(it, u, f) : \E a \in AgentCalls(click) :
        LET top == {"radio", SourceWidget(it)}
            qs == QuerySection(x.value[1], q, click, a)
        IN  /\ input_type' = it
            /\ url' = IF it = WEBSITE THEN u ELSE ""
            /\ uploaded_file' = IF it = UPLOAD THEN f ELSE None
            /\ extractor_calls' = x.calls
            /\ returned' = IF x.calls = <<>> \/ x.raised THEN None ELSE Some(x.value)
            /\ failed_step' = x.fail
            /\ event' = ev
            /\ prev_loaded' = ("success" \in rendered)
            /\ IF x.raised
               THEN /\ data_content' = ResetResult[1]
                    /\ error_message' = ResetResult[2]
                    /\ user_query' = q
                    /\ analysis_prompt' = None
                    /\ rendered' = top
                    /\ agent_runs' = 0
                    /\ status' = "aborted"
                    /\ clicked' = FALSE
               ELSE /\ data_content' = x.value[1]
                    /\ error_message' = x.value[2]
                    /\ user_query' = qs.user_query
                    /\ analysis_prompt' = qs.prompt
                    /\ rendered' = top \cup ShowError(x.value[2]) \cup qs.shown
                    /\ agent_runs' = qs.runs
                    /\ status' = qs.status
                    /\ clicked' = qs.clicked

\* The values the widgets deliver when the user changes none of them.  A widget
\* the last pass did not render has lost its value.
CurUrl == IF "url_input" \in rendered THEN url ELSE ""
CurFile == IF "file_uploader" \in rendered THEN uploaded_file ELSE None
CurQuery == IF "query_input" \in rendered THEN user_query ELSE ""

\* The first load of the page.
Init ==
    /\ input_type = WEBSITE
    /\ url = ""
    /\ uploaded_file = None
    /\ user_query = ""
    /\ data_content = None
    /\ error_message = None
    /\ analysis_prompt = None
    /\ rendered = {"radio", "url_input"}
    /\ agent_runs = 0
    /\ status = "done"
    /\ clicked = FALSE
    /\ extractor_calls = <<>>
    /\ returned = None
    /\ failed_step = "none"
    /\ event = "load"
    /\ prev_loaded = FALSE

SelectInputType ==
    \E t \in InputTypes :
        /\ t # input_type
        /\ Render("select", t, CurUrl, CurFile, CurQuery, FALSE)

EnterUrl ==
    \E u \in Urls \cup {""} :
        /\ input_type = WEBSITE
        /\ u # CurUrl
        /\ Render("url", input_type, u, CurFile, CurQuery, FALSE)

UploadFile ==
    \E f \in Files :
        /\ input_type = UPLOAD
        /\ Some(f) # CurFile
        /\ Render("upload", input_type, CurUrl, Some(f), CurQuery, FALSE)

RemoveFile ==
    /\ input_type = UPLOAD
    /\ CurFile # None
    /\ Render("remove", input_type, CurUrl, None, CurQuery, FALSE)

EnterQuery ==
    \E q \in Queries \cup {""} :
        /\ "query_input" \in rendered
        /\ q # user_query
        /\ Render("query", input_type, CurUrl, CurFile, q, FALSE)

ClickAnalyze ==
    /\ "button" \in rendered
    /\ Render("click", input_type, CurUrl, CurFile, CurQuery, TRUE)

Rerun == Render("rerun", input_type, CurUrl, CurFile, CurQuery, FALSE)

Next ==
    \/ SelectInputType
    \/ EnterUrl
    \/ UploadFile
    \/ RemoveFile
    \/ EnterQuery
    \/ ClickAnalyze
    \/ Rerun

Spec == Init /\ [][Next]_vars

----------------------------------------------------------------------------
(* Properties of a render pass.  Every state is the end of a pass.         *)

SourcePresent ==
    \/ input_type = WEBSITE /\ url # ""
    \/ input_type = UPLOAD /\ uploaded_file # None

RecognisedTypes == {PDF_TYPE, TXT_TYPE, CSV_TYPE, XLS_TYPE, XLSX_TYPE}

SourceRecognised ==
    \/ input_type = WEBSITE /\ url # ""
    \/ input_type = UPLOAD /\ uploaded_file # None
          /\ uploaded_file[1].type \in RecognisedTypes

Cleared ==
    /\ data_content = None
    /\ error_message = None
    /\ "query_input" \notin rendered
    /\ "button" \notin rendered
    /\ agent_runs = 0

\* C1: a pass whose extraction ended in an error composes no prompt and
\* makes no agent call.
C1_ErrorBlocksAgent ==
    error_message # None => (analysis_prompt = None /\ agent_runs = 0)

\* The user clicked Analyze and the extraction of that pass failed.
C1_Witness ==
    event = "click" /\ prev_loaded /\ error_message # None /\ "error" \in rendered

\* C2: when the trigger fires with an empty query, a warning is shown and
\* neither the prompt is composed nor the agent called.
C2_EmptyQueryWarns ==
    (clicked /\ user_query = "") =>
        ("warning" \in rendered /\ analysis_prompt = None /\ agent_runs = 0)

C2_Witness ==
    clicked /\ user_query = "" /\ Len(data_content[1]) > Budget
        /\ "warning" \in rendered

\* C3: whenever a URL or an uploaded file is present, exactly one of
\* data_content and error_message is non-null.
C3_ExactlyOne ==
    SourcePresent => ((data_content = None) # (error_message = None))

\* C4: a failure of a step inside an extractor gives (None, message), raises
\* nothing, and the pass goes on to display the error.
C4_FailureIsCaught ==
    failed_step # "none" =>
        /\ status = "done"
        /\ returned # None
        /\ data_content = None
        /\ error_message # None
        /\ "error" \in rendered

C4_Witness ==
    failed_step = "extract_text" /\ "error" \in rendered /\ status = "done"

\* C5: whenever the extractor returned a text and no error, the query input
\* and the trigger are rendered.
C5_SuccessUnlocks ==
    (returned # None /\ returned[1][1] # None /\ returned[1][2] = None) =>
        {"query_input", "button"} \subseteq rendered

\* C6: the content in the prompt passed to the agent is the first Budget
\* characters of the content when it is longer, and the whole content otherwise.
C6_PromptHoldsPrefix ==
    agent_runs > 0 =>
        LET c == data_content[1]
            e == analysis_prompt[1][4]
        IN  IF Len(c) > Budget
            THEN Len(e) = Budget /\ \A i \in 1..Budget : e[i] = c[i]
            ELSE e = c

C6_Witness ==
    agent_runs > 0 /\ Len(data_content[1]) > Budget
        /\ Len(analysis_prompt[1][4]) = Budget

\* C7: no pass displays both the error and the success message.
C7_ErrorXorSuccess == ~({"error", "success"} \subseteq rendered)

\* The error is displayed in the pass after one that displayed success.
C7_Witness == prev_loaded /\ "error" \in rendered /\ "success" \notin rendered

\* C8: a pass in which the trigger fires with a non-empty query calls the
\* agent exactly once; it ends with the result displayed, or aborted with
\* no result displayed.
C8_OneAgentCall ==
    (clicked /\ user_query # "") =>
        /\ agent_runs = 1
        /\ \/ status = "done" /\ "response" \in rendered
           \/ /\ status = "aborted"
              /\ "response" \notin rendered
              /\ "results_heading" \notin rendered

C8_Witness ==
    clicked /\ user_query # "" /\ status = "aborted" /\ agent_runs = 1

\* C9: the pass after a change of the source kind, and every pass until a URL
\* or file is supplied, holds no content and no error, renders neither the
\* query input nor the trigger, and calls no agent.
C9_KindChangeResets ==
    /\ [][input_type' # input_type => (~SourcePresent /\ Cleared)']_vars
    /\ [](~SourcePresent => Cleared)

\* The kind was changed while content was loaded.
C9_Witness == event = "select" /\ prev_loaded /\ ~SourcePresent /\ Cleared

====
